---- MODULE Spec2Model ----
(***************************************************************************)
(* Importing notebooks as modules: the NotebookImporter finder/loader of   *)
(* notebooks_as_modules.py, the import protocol that drives it, and the    *)
(* worker bootstrap of compute.py.                                         *)
(*                                                                         *)
(* A cell's source text is a sequence of fragments (a blank, a newline,    *)
(* the magic prefix "%", an unbalanced "(", or one assignment statement).  *)
(* A module namespace is a function from the names bound so far to their   *)
(* integer values; the attributes every module carries (__name__,          *)
(* __spec__, __builtins__, ...) are kept out of it, except __name__ and    *)
(* __loader__, which are fields of the module record.                      *)
(***************************************************************************)
EXTENDS Integers, Sequences, FiniteSets, TLC

\* ------------------------------------------------------------------ bounds
MaxCells == 4
MaxInitCalls == 2
MaxWorkers == 3
MaxTasks == 1
CpuCount == 2

\* ------------------------------------------------------ source text, cells
Whitespace == {" ", "\n"}
Statements == {"x = 1", "y = x + 1", "z = x + 100"}

\* The name a statement binds, the name it reads ("" for none), its constant.
Target(s) == CASE s = "x = 1" -> "x" [] s = "y = x + 1" -> "y" [] OTHER -> "z"
Ref(s) == IF s = "x = 1" THEN "" ELSE "x"
Const(s) == CASE s = "x = 1" -> 1 [] s = "y = x + 1" -> 1 [] OTHER -> 100

NoMetadata == [k \in {} |-> <<>>]
Tagged(tags) == [tags |-> tags]
Cell(type, source, metadata) ==
  [cell_type |-> type, source |-> source, metadata |-> metadata]

\* The cells documents are built from.
CellX == Cell("code", <<"x = 1", "\n">>, NoMetadata)
CellTimeit == Cell("code", <<"%", "x = 1", " ">>, NoMetadata)
CellMagic == Cell("code", <<"\n", " ", "%", "(">>, Tagged(<<>>))
CellNoImport == Cell("code", <<"y = x + 1">>, Tagged(<<"draft", "noimport">>))
CellZ == Cell("code", <<"z = x + 100">>, Tagged(<<"draft">>))
CellText == Cell("markdown", <<"(">>, NoMetadata)
CellBad == Cell("code", <<"(">>, NoMetadata)
Cells == {CellX, CellTimeit, CellMagic, CellNoImport, CellZ, CellText, CellBad}

SeqsUpTo(S, n) == UNION {[1..k -> S] : k \in 0..n}
Docs == SeqsUpTo(Cells, MaxCells)

\* str.strip(): drop leading and trailing whitespace.
RECURSIVE LStrip(_)
LStrip(s) == IF s # <<>> /\ Head(s) \in Whitespace THEN LStrip(Tail(s)) ELSE s
RECURSIVE RStrip(_)
RStrip(s) ==
  IF s # <<>> /\ s[Len(s)] \in Whitespace THEN RStrip(SubSeq(s, 1, Len(s) - 1)) ELSE s
Strip(s) == RStrip(LStrip(s))

StartsWith(s, ch) == s # <<>> /\ Head(s) = ch

\* list membership: x in l
In(x, l) == \E i \in 1..Len(l) : l[i] = x

\* dict.get(key, default)
Get(m, key, default) == IF key \in DOMAIN m THEN m[key] ELSE default

\* [c for c in notebook.cells if c.cell_type == "code"]
AllCells(cells) == cells
RECURSIVE CodeCellsReversed(_)
CodeCellsReversed(cells) ==
  IF cells = <<>> THEN <<>>
  ELSE IF Head(cells).cell_type = "code"
       THEN CodeCellsReversed(Tail(cells)) \o <<Head(cells)>>
       ELSE CodeCellsReversed(Tail(cells))
RECURSIVE CodeCells(_)
CodeCells(cells) ==
  IF cells = <<>> THEN <<>>
  ELSE IF Head(cells).cell_type = "code"
       THEN <<Head(cells)>> \o CodeCells(Tail(cells))
       ELSE CodeCells(Tail(cells))

\* The loop's condition: the cell is neither a magic nor tagged "noimport".
SurvivesAnyTag(cell) == ~StartsWith(Strip(cell.source), "%")
SurvivesUnstripped(cell) ==
  /\ ~StartsWith(cell.source, "%")
  /\ ~In("noimport", Get(cell.metadata, "tags", <<>>))
Survives(cell) ==
  /\ ~StartsWith(Strip(cell.source), "%")
  /\ ~In("noimport", Get(cell.metadata, "tags", <<>>))

\* compile(source, name, "exec"): the statements of the source, or a
\* SyntaxError: a "%" or an unbalanced "(", an indented first statement, or
\* two statements on one line.
SyntaxOk(source) ==
  /\ \A i \in 1..Len(source) : source[i] \in Whitespace \cup Statements
  /\ \A i \in 1..Len(source) :
       source[i] \in Statements =>
         (i = 1 \/ source[i - 1] = "\n")
RECURSIVE StatementsOf(_)
StatementsOf(source) ==
  IF source = <<>> THEN <<>>
  ELSE IF Head(source) \in Statements
       THEN <<Head(source)>> \o StatementsOf(Tail(source))
       ELSE StatementsOf(Tail(source))
Compile(source, name) ==
  IF SyntaxOk(source)
  THEN [ok |-> TRUE, name |-> name, body |-> StatementsOf(source)]
  ELSE [ok |-> FALSE, name |-> name, body |-> <<>>]

\* exec(code, globals): the statements run in order against the namespace;
\* reading an unbound name raises NameError and keeps what was bound before.
Bind(ns, n, v) == [m \in DOMAIN ns \cup {n} |-> IF m = n THEN v ELSE ns[m]]
RECURSIVE Exec(_, _)
Exec(body, ns) ==
  IF body = <<>> THEN [ok |-> TRUE, ns |-> ns]
  ELSE LET s == Head(body) IN
       IF Ref(s) # "" /\ Ref(s) \notin DOMAIN ns
       THEN [ok |-> FALSE, ns |-> ns]
       ELSE Exec(Tail(body),
                 Bind(ns, Target(s), (IF Ref(s) = "" THEN 0 ELSE ns[Ref(s)]) + Const(s)))

\* ------------------------------------------------- files, finders, modules
ModuleNames == {"util", "os"}
\* Names the interpreter's own path finder resolves to an ordinary module.
OrdinaryModules == {"os"}
Dirs == {"/work", "/other"}

\* notebook_for_module: f"{name_module}.ipynb"
notebook_for_module(name_module) == <<name_module, ".ipynb">>
Paths == {notebook_for_module(n) : n \in ModuleNames}

AbsentFile == [kind |-> "absent", cells |-> <<>>]
UnreadableFile == [kind |-> "unreadable", cells |-> <<>>]
CorruptFile == [kind |-> "corrupt", cells |-> <<>>]
NotebookFile(cells) == [kind |-> "notebook", cells |-> cells]
Files == {AbsentFile, UnreadableFile, CorruptFile} \cup {NotebookFile(d) : d \in Docs}

Finder(kind, id) == [kind |-> kind, id |-> id]
NoFinder == Finder("none", 0)
\* sys.meta_path of a fresh interpreter: BuiltinImporter, FrozenImporter, PathFinder.
OrdinaryChain == <<Finder("ordinary", 1), Finder("ordinary", 2), Finder("ordinary", 3)>>
NotebookImporters(chain) == {i \in 1..Len(chain) : chain[i].kind = "notebook"}

\* sys.meta_path.append(NotebookImporter()): a new instance, at the end.
InstallFirst(chain) ==
  <<Finder("notebook", Cardinality(NotebookImporters(chain)) + 1)>> \o chain
Install(chain) ==
  Append(chain, Finder("notebook", Cardinality(NotebookImporters(chain)) + 1))

ModuleSpec(name, loader, origin) == [name |-> name, loader |-> loader, origin |-> origin]
NoSpec == ModuleSpec("", NoFinder, <<"", "", "">>)
NoPath == <<"", "", "">>
NoModule == [name |-> "", loader |-> NoFinder, origin |-> <<"", "", "">>, dict |-> <<>>]

VARIABLES
  sys_modules,    \* sys.modules: name -> module object
  cwd,            \* the current working directory
  fs,             \* directory -> path -> file
  ipython,        \* whether get_ipython() returns a session
  ipython_cache,  \* the sources the session's compile.cache has registered
  pc,             \* position of the import in progress
  name_full,      \* the name being imported
  finder_ix,      \* the finder of meta_path asked next
  spec,           \* the specification a finder returned
  module,         \* the module object handed to exec_module
  file_notebook,  \* the handle of the with-statement: "none", "open", "closed"
  opens,          \* open() calls of the import in progress
  opened,         \* the absolute path the last open() resolved to
  notebook,       \* the cells read_notebook returned
  num_cell,       \* the loop's position among the code cells, from 1
  compiled,       \* compile() calls of this load: <<name_cell, num_cell>>
  executed,       \* exec() calls of this load: num_cell
  outcome,        \* how the last import statement ended
  workers,        \* worker processes of the LocalCluster
  chain,          \* process -> its sys.meta_path
  imported,       \* process -> notebooks_as_modules is in its sys.modules
  setup_pc,       \* position of setup_dask_cluster
  pending,        \* workers client.run has yet to run init_worker on
  init_calls,     \* process -> calls of init_worker made in it
  dispatched      \* worker -> tasks the client sent it

loadVars == <<sys_modules, cwd, fs, ipython, ipython_cache, pc, name_full,
              finder_ix, spec, module, file_notebook, opens, opened, notebook,
              num_cell, compiled, executed, outcome>>
bootVars == <<workers, chain, imported, setup_pc, pending, init_calls, dispatched>>
vars == <<loadVars, bootVars>>

\* Processes: the main process and the cluster's workers.
Main == 0
WorkerIds == 1..(IF MaxWorkers > CpuCount THEN MaxWorkers ELSE CpuCount)
Procs == {Main} \cup WorkerIds
\* sys.meta_path of the process whose imports are followed.
meta_path == chain[Main]

\* os.access(path, os.R_OK), open(path, "rb"): relative to the working directory.
FileAt(path) == fs[cwd][path]
Access(path) == FileAt(path).kind \in {"corrupt", "notebook"}
\* op.realpath(path)
Realpath(path) == <<cwd>> \o path

\* NotebookImporter.find_spec
find_spec_unchecked(self, name) ==
  ModuleSpec(name, self, Realpath(notebook_for_module(name)))
find_spec_new_loader(self, name) ==
  LET name_notebook == notebook_for_module(name) IN
  IF Access(name_notebook)
  THEN ModuleSpec(name, Finder("notebook", self.id + 1), Realpath(name_notebook))
  ELSE NoSpec
find_spec(self, name) ==
  LET name_notebook == notebook_for_module(name) IN
  IF Access(name_notebook)
  THEN ModuleSpec(name, self, Realpath(name_notebook))
  ELSE NoSpec

\* find_spec of the interpreter's own finders: only PathFinder finds a file.
OrdinaryFindSpec(self, name) ==
  IF self.id = 3 /\ name \in OrdinaryModules
  THEN ModuleSpec(name, self, <<"/lib", name, ".py">>)
  ELSE NoSpec

\* NotebookImporter.create_module returns None: the runtime allocates the
\* default empty module and sets its attributes from the specification.
create_module_eager(s) ==
  [name |-> s.name, loader |-> s.loader, origin |-> s.origin,
   dict |-> Exec(<<"x = 1">>, <<>>).ns]
create_module(s) ==
  [name |-> s.name, loader |-> s.loader, origin |-> s.origin, dict |-> <<>>]

\* ------------------------------------------------------ the import protocol
\* sys.modules[name] = module, and del sys.modules[name]
Registered(m) ==
  [n \in DOMAIN sys_modules \cup {m.name} |-> IF n = m.name THEN m ELSE sys_modules[n]]
Unregistered(name) == [n \in DOMAIN sys_modules \ {name} |-> sys_modules[n]]

loadLocals == <<name_full, finder_ix, spec, module, file_notebook, opens, opened,
                notebook, num_cell, compiled, executed>>
environment == <<cwd, fs, ipython>>

\* import <name>: a module already in sys.modules is returned as it is;
\* otherwise the finders of sys.meta_path are asked in order.
ImportStatement(name) ==
  /\ pc = "idle"
  /\ IF name \in DOMAIN sys_modules
     THEN /\ outcome' = "cached"
          /\ UNCHANGED <<pc, loadLocals>>
     ELSE /\ pc' = "find"
          /\ name_full' = name
          /\ finder_ix' = 1
          /\ spec' = NoSpec
          /\ module' = NoModule
          /\ file_notebook' = "none"
          /\ opens' = 0
          /\ opened' = NoPath
          /\ notebook' = <<>>
          /\ num_cell' = 0
          /\ compiled' = <<>>
          /\ executed' = <<>>
          /\ outcome' = "importing"
  /\ UNCHANGED <<environment, sys_modules, ipython_cache, bootVars>>

\* One finder's find_spec; the first specification returned ends the search.
FindSpec ==
  /\ pc = "find"
  /\ finder_ix <= Len(meta_path)
  /\ LET finder == meta_path[finder_ix]
         found == IF finder.kind = "notebook"
                  THEN find_spec(finder, name_full)
                  ELSE OrdinaryFindSpec(finder, name_full)
     IN IF found = NoSpec
        THEN /\ finder_ix' = finder_ix + 1
             /\ UNCHANGED <<pc, spec>>
        ELSE /\ spec' = found
             /\ pc' = "create"
             /\ UNCHANGED finder_ix
  /\ UNCHANGED <<environment, sys_modules, ipython_cache, name_full, module,
                 file_notebook, opens, opened, notebook, num_cell, compiled, executed,
                 outcome, bootVars>>

\* No finder returned a specification: ModuleNotFoundError.
NotFound ==
  /\ pc = "find"
  /\ finder_ix > Len(meta_path)
  /\ pc' = "idle"
  /\ outcome' = "ModuleNotFoundError"
  /\ UNCHANGED <<environment, sys_modules, ipython_cache, loadLocals, bootVars>>

\* module_from_spec: the loader's create_module, then sys.modules[name] = module.
CreateModule ==
  /\ pc = "create"
  /\ module' = create_module(spec)
  /\ sys_modules' = Registered(module')
  /\ pc' = "exec"
  /\ UNCHANGED <<environment, ipython_cache, name_full, finder_ix, spec, file_notebook,
                 opens, opened, notebook, num_cell, compiled, executed, outcome,
                 bootVars>>

\* exec_module of an ordinary loader: the module's own file, not a notebook.
ExecOrdinary ==
  /\ pc = "exec"
  /\ module.loader.kind = "ordinary"
  /\ pc' = "idle"
  /\ outcome' = "loaded"
  /\ UNCHANGED <<environment, sys_modules, ipython_cache, loadLocals, bootVars>>

\* An exception leaves exec_module: the runtime deletes sys.modules[name]
\* and the import statement raises it.
RaiseWrapped(exc) ==
  /\ sys_modules' = Unregistered(module.name)
  /\ pc' = "idle"
  /\ outcome' = "ImportError"
Raise(exc) ==
  /\ sys_modules' = Unregistered(module.name)
  /\ pc' = "idle"
  /\ outcome' = exc

\* exec_module, line 34: open(name_notebook, "rb").
OpenNotebook ==
  /\ pc = "exec"
  /\ module.loader.kind = "notebook"
  /\ opens' = opens + 1
  /\ opened' = Realpath(notebook_for_module(module.name))
  /\ LET name_notebook == notebook_for_module(module.name) IN
     IF Access(name_notebook)
     THEN /\ file_notebook' = "open"
          /\ pc' = "read"
          /\ UNCHANGED <<sys_modules, outcome>>
     ELSE /\ Raise("OSError")
          /\ UNCHANGED file_notebook
  /\ UNCHANGED <<environment, ipython_cache, name_full, finder_ix, spec, module,
                 notebook, num_cell, compiled, executed, bootVars>>

\* The handle when the with-statement is left, the parse having raised or not.
ClosedIfParsed(parsed) == IF parsed THEN "closed" ELSE "open"
HandleAfterWith(parsed) == "closed"

\* exec_module, line 35: read_notebook parses the file; the with-statement
\* closes the handle whether or not the parse raised.
ReadNotebook ==
  /\ pc = "read"
  /\ file_notebook' =
       HandleAfterWith(FileAt(notebook_for_module(module.name)).kind = "notebook")
  /\ LET file == FileAt(notebook_for_module(module.name)) IN
     IF file.kind = "notebook"
     THEN /\ notebook' = file.cells
          /\ num_cell' = 1
          /\ pc' = "cells"
          /\ UNCHANGED <<sys_modules, outcome>>
     ELSE /\ Raise("NotJSONError")
          /\ UNCHANGED <<notebook, num_cell>>
  /\ UNCHANGED <<environment, ipython_cache, name_full, finder_ix, spec, module, opens,
                 opened, compiled, executed, bootVars>>

\* The name a cell is compiled under: f"{name_notebook} Cell {num_cell}", or
\* the one ipython.compile.cache(cell.source) returns.
ZeroBasedLabel(name_notebook, n) ==
  [file |-> name_notebook, cell |-> n - 1, text |-> <<>>]
UnregisteredLabel(source) == [file |-> <<"<string>", "">>, cell |-> 0, text |-> <<>>]
DefaultLabel(name_notebook, n) == [file |-> name_notebook, cell |-> n, text |-> <<>>]
IPythonLabel(source) == [file |-> <<"<ipython-input>", "">>, cell |-> 0, text |-> source]

\* The namespace a cell runs against: module.__dict__.
FreshGlobals(m) == <<>>
Globals(m) == m.dict

\* enumerate(code cells, 1): the position after this one.
NextCell(n) == n + 1

\* exec_module, lines 36-43: one pass of the loop over the code cells.
ExecCell ==
  /\ pc = "cells"
  /\ num_cell <= Len(CodeCells(notebook))
  /\ LET cell == CodeCells(notebook)[num_cell]
         name_notebook == notebook_for_module(module.name)
         name_cell == IF ipython THEN IPythonLabel(cell.source)
                      ELSE DefaultLabel(name_notebook, num_cell)
         code == Compile(cell.source, name_cell)
         result == Exec(code.body, Globals(module))
         populated == [module EXCEPT !.dict = result.ns]
     IN IF ~Survives(cell)
        THEN /\ num_cell' = NextCell(num_cell)
             /\ UNCHANGED <<sys_modules, ipython_cache, pc, module, compiled, executed,
                            outcome>>
        ELSE /\ ipython_cache' = IF ipython THEN ipython_cache \cup {cell.source}
                                 ELSE ipython_cache
             /\ compiled' = Append(compiled, [name |-> name_cell, num_cell |-> num_cell])
             /\ IF ~code.ok
                THEN /\ Raise("SyntaxError")
                     /\ UNCHANGED <<module, executed, num_cell>>
                ELSE /\ executed' = Append(executed, num_cell)
                     /\ module' = populated
                     /\ IF result.ok
                        THEN /\ sys_modules' = Registered(populated)
                             /\ num_cell' = NextCell(num_cell)
                             /\ UNCHANGED <<pc, outcome>>
                        ELSE /\ Raise("NameError")
                             /\ UNCHANGED num_cell
  /\ UNCHANGED <<environment, name_full, finder_ix, spec, file_notebook, opens, opened,
                 notebook, bootVars>>

\* The loop is exhausted: exec_module returns and the import succeeds.
ExecReturn ==
  /\ pc = "cells"
  /\ num_cell > Len(CodeCells(notebook))
  /\ pc' = "idle"
  /\ outcome' = "loaded"
  /\ UNCHANGED <<environment, sys_modules, ipython_cache, loadLocals, bootVars>>

\* ------------------------------------------------------------ the bootstrap
\* import notebooks_as_modules: the module body (line 46) runs on the first
\* import in a process; later imports find the module in sys.modules.
InstallAgain(ch, cached) == Install(ch)
import_notebooks_as_modules(ch, cached) == IF cached THEN ch ELSE Install(ch)

ImportedIn(p) ==
  /\ chain' = [chain EXCEPT ![p] = import_notebooks_as_modules(@, imported[p])]
  /\ imported' = [imported EXCEPT ![p] = TRUE]

\* import notebooks_as_modules in the main process.
ImportLibrary ==
  /\ ~imported[Main]
  /\ ImportedIn(Main)
  /\ UNCHANGED <<loadVars, workers, setup_pc, pending, init_calls, dispatched>>

\* compute.init_worker() called in the main process.
CallInitWorker ==
  /\ init_calls[Main] < MaxInitCalls
  /\ init_calls' = [init_calls EXCEPT ![Main] = @ + 1]
  /\ ImportedIn(Main)
  /\ UNCHANGED <<loadVars, workers, setup_pc, pending, dispatched>>

\* n_workers=(num_workers or cpu_count())
NumWorkers(num_workers) == IF num_workers # 0 THEN num_workers ELSE CpuCount

\* setup_dask_cluster, line 11: LocalCluster starts its worker processes.
StartCluster(num_workers) ==
  /\ setup_pc = "idle"
  /\ workers' = 1..NumWorkers(num_workers)
  /\ setup_pc' = "cluster"
  /\ UNCHANGED <<loadVars, chain, imported, pending, init_calls, dispatched>>

\* The workers client.run(init_worker) runs the function on: every worker
\* of the cluster, all of which LocalCluster has started by then.
RunOnFirst(ws) == {w \in ws : w = 1}
RunOn(ws) == ws

\* setup_dask_cluster, lines 12-13: the client connects and client.run
\* sends init_worker to the workers.
ClientRun ==
  /\ setup_pc = "cluster"
  /\ pending' = RunOn(workers)
  /\ setup_pc' = "run"
  /\ UNCHANGED <<loadVars, workers, chain, imported, init_calls, dispatched>>

\* A worker runs init_worker for client.run.
InitWorker(w) ==
  /\ setup_pc = "run"
  /\ w \in pending
  /\ pending' = pending \ {w}
  /\ init_calls' = [init_calls EXCEPT ![w] = @ + 1]
  /\ ImportedIn(w)
  /\ UNCHANGED <<loadVars, workers, setup_pc, dispatched>>

\* client.run has every worker's result; line 14 returns the client.
SetupReturn ==
  /\ setup_pc = "run"
  /\ pending = {}
  /\ setup_pc' = "returned"
  /\ UNCHANGED <<loadVars, workers, chain, imported, pending, init_calls, dispatched>>

\* The caller, who now holds the client, submits a task that runs on w.
Dispatch(w) ==
  /\ setup_pc = "returned"
  /\ w \in workers
  /\ dispatched[w] < MaxTasks
  /\ dispatched' = [dispatched EXCEPT ![w] = @ + 1]
  /\ UNCHANGED <<loadVars, workers, chain, imported, setup_pc, pending, init_calls>>

\* ----------------------------------------------------------- specifications
\* The files of the working directory: util.ipynb is any file, os.ipynb a
\* notebook named like an ordinary module.
InitFiles(util) ==
  [d \in Dirs |->
    [p \in Paths |->
      IF d # "/work" THEN AbsentFile
      ELSE IF p = notebook_for_module("util") THEN util
      ELSE NotebookFile(<<CellX>>)]]

InitLoad ==
  /\ sys_modules = <<>>
  /\ cwd = "/work"
  /\ \E util \in Files : fs = InitFiles(util)
  /\ ipython \in BOOLEAN
  /\ ipython_cache = {}
  /\ pc = "idle"
  /\ name_full = ""
  /\ finder_ix = 0
  /\ spec = NoSpec
  /\ module = NoModule
  /\ file_notebook = "none"
  /\ opens = 0
  /\ opened = NoPath
  /\ notebook = <<>>
  /\ num_cell = 0
  /\ compiled = <<>>
  /\ executed = <<>>
  /\ outcome = "none"

InitBoot(ch, lib) ==
  /\ workers = {}
  /\ chain = [p \in Procs |-> IF p = Main THEN ch ELSE OrdinaryChain]
  /\ imported = [p \in Procs |-> p = Main /\ lib]
  /\ setup_pc = "idle"
  /\ pending = {}
  /\ init_calls = [p \in Procs |-> 0]
  /\ dispatched = [w \in WorkerIds |-> 0]

\* The importing process after "import notebooks_as_modules".
Init == InitLoad /\ InitBoot(Install(OrdinaryChain), TRUE)

Next ==
  \/ \E name \in ModuleNames : ImportStatement(name)
  \/ FindSpec
  \/ NotFound
  \/ CreateModule
  \/ ExecOrdinary
  \/ OpenNotebook
  \/ ReadNotebook
  \/ ExecCell
  \/ ExecReturn

Spec == Init /\ [][Next]_vars

\* The same process after the module body has run a second time
\* (importlib.reload(notebooks_as_modules)): two instances in the chain.
InitTwice == InitLoad /\ InitBoot(Install(Install(OrdinaryChain)), TRUE)
SpecTwice == InitTwice /\ [][Next]_vars

\* Other activity of the process and the machine while an import runs:
\* another thread changes the working directory, util.ipynb is rewritten,
\* removed or has its permissions changed.
EnvFiles == {AbsentFile, UnreadableFile, CorruptFile, NotebookFile(<<CellX>>),
             NotebookFile(<<CellBad>>), NotebookFile(<<CellX, CellZ>>)}

Chdir(d) ==
  /\ d # cwd
  /\ cwd' = d
  /\ UNCHANGED <<sys_modules, fs, ipython, ipython_cache, pc, loadLocals, outcome,
                 bootVars>>

WriteFile(d, file) ==
  /\ fs[d][notebook_for_module("util")] # file
  /\ fs' = [fs EXCEPT ![d][notebook_for_module("util")] = file]
  /\ UNCHANGED <<sys_modules, cwd, ipython, ipython_cache, pc, loadLocals, outcome,
                 bootVars>>

InitEnv ==
  /\ InitLoad
  /\ fs = InitFiles(NotebookFile(<<CellX>>))
  /\ InitBoot(Install(OrdinaryChain), TRUE)

NextEnv ==
  \/ Next
  \/ \E d \in Dirs : Chdir(d)
  \/ \E d \in Dirs, file \in EnvFiles : WriteFile(d, file)

SpecEnv == InitEnv /\ [][NextEnv]_vars

\* Fresh processes: no process has imported notebooks_as_modules yet.
InitBootstrap ==
  /\ InitLoad
  /\ fs = InitFiles(AbsentFile)
  /\ ~ipython
  /\ InitBoot(OrdinaryChain, FALSE)

NextBootstrap ==
  \/ ImportLibrary
  \/ CallInitWorker
  \/ \E n \in 0..MaxWorkers : StartCluster(n)
  \/ ClientRun
  \/ \E w \in WorkerIds : InitWorker(w)
  \/ SetupReturn
  \/ \E w \in WorkerIds : Dispatch(w)

SpecBootstrap == InitBootstrap /\ [][NextBootstrap]_vars

\* ------------------------------------------------------------------- claims
\* What the claims speak of, stated apart from the loader's own definitions.
IsDirective(cell) ==
  LET stripped == Strip(cell.source) IN Len(stripped) > 0 /\ stripped[1] = "%"
IsNoImport(cell) ==
  /\ "tags" \in DOMAIN cell.metadata
  /\ \E i \in 1..Len(cell.metadata.tags) : cell.metadata.tags[i] = "noimport"
IsCode(cell) == cell.cell_type = "code"
Excluded(cell) == IsDirective(cell) \/ IsNoImport(cell)

\* One continuous session: the surviving cells of a list of code cells run
\* in order against one namespace, stopping at the first that raises.
RECURSIVE Session(_, _)
Session(cells, ns) ==
  IF cells = <<>> THEN [ok |-> TRUE, ns |-> ns]
  ELSE LET cell == Head(cells) IN
       IF Excluded(cell) THEN Session(Tail(cells), ns)
       ELSE IF ~SyntaxOk(cell.source) THEN [ok |-> FALSE, ns |-> ns]
       ELSE LET ran == Exec(StatementsOf(cell.source), ns) IN
            IF ran.ok THEN Session(Tail(cells), ran.ns) ELSE [ok |-> FALSE, ns |-> ran.ns]

\* The code cells of the document being loaded, and those before position n.
CodeOf(cells) == SelectSeq(cells, IsCode)
Before(n) == SubSeq(CodeOf(notebook), 1, n - 1)
SurvivingBelow(n) == {i \in 1..(n - 1) : ~Excluded(CodeOf(notebook)[i])}
CompiledCells == {compiled[j].num_cell : j \in 1..Len(compiled)}
ExecutedCells == {executed[j] : j \in 1..Len(executed)}
Increasing(s) == \A i, j \in 1..Len(s) : i < j => s[i] < s[j]

NotebookLoad == module.loader.kind = "notebook"
InCells == pc = "cells" /\ NotebookLoad
Loaded == pc = "idle" /\ outcome = "loaded" /\ NotebookLoad
CellErrors == {"SyntaxError", "NameError"}
FailedAtCell == pc = "idle" /\ outcome \in CellErrors /\ NotebookLoad

\* C1: the surviving code cells run strictly in document order against one
\* shared namespace: at every position of the loop the module's namespace is
\* what one continuous session over the cells before it leaves, the cells run
\* so far are the surviving ones in increasing order, a load fails in a cell
\* only if that session fails there too (so a cell that reads a name an
\* earlier surviving cell bound does not fail), and after a successful load
\* the registered module holds exactly the session's bindings.
C1_SharedNamespaceInOrder ==
  /\ InCells =>
       /\ Session(Before(num_cell), <<>>) = [ok |-> TRUE, ns |-> module.dict]
       /\ ExecutedCells = SurvivingBelow(num_cell)
       /\ Increasing(executed)
  /\ FailedAtCell => ~Session(CodeOf(notebook), <<>>).ok
  /\ Loaded =>
       /\ Session(CodeOf(notebook), <<>>) = [ok |-> TRUE, ns |-> module.dict]
       /\ sys_modules[module.name] = module
       /\ ExecutedCells = SurvivingBelow(Len(CodeOf(notebook)) + 1)
       /\ Increasing(executed)

\* C1 happens: the document x = 1 / %timeit ... / y = x + 1 (noimport) /
\* z = x + 100 has loaded with x = 1, z = 101 and no y.
C1_Witness ==
  /\ Loaded
  /\ notebook = <<CellX, CellTimeit, CellNoImport, CellZ>>
  /\ sys_modules["util"].dict = [n \in {"x", "z"} |-> IF n = "x" THEN 1 ELSE 101]
  /\ "y" \notin DOMAIN sys_modules["util"].dict

\* C2: a code cell whose stripped source begins with "%" is never compiled
\* and never executed, no load fails at such a cell (even one whose text is
\* not valid syntax), and the namespace is what the session leaves with
\* those cells deleted from the document.
NotDirective(cell) == ~IsDirective(cell)
C2_DirectiveCellsSkipped ==
  /\ NotebookLoad =>
       \A i \in 1..Len(CodeOf(notebook)) :
         IsDirective(CodeOf(notebook)[i]) => i \notin CompiledCells \cup ExecutedCells
  /\ FailedAtCell => ~IsDirective(CodeOf(notebook)[num_cell])
  /\ InCells =>
       Session(SelectSeq(Before(num_cell), NotDirective), <<>>).ns = module.dict
  /\ Loaded =>
       Session(SelectSeq(CodeOf(notebook), NotDirective), <<>>).ns = module.dict

\* C2 happens: a load succeeded past a directive cell that preceded a
\* compiled cell and whose text does not compile.
C2_Witness ==
  /\ Loaded
  /\ \E i \in 1..Len(CodeOf(notebook)) :
       /\ IsDirective(CodeOf(notebook)[i])
       /\ Head(CodeOf(notebook)[i].source) # "%"
       /\ ~SyntaxOk(CodeOf(notebook)[i].source)
       /\ \E j \in CompiledCells : j > i

\* C3: a code cell tagged "noimport" is never compiled and never executed,
\* no load fails at it, and the namespace is what the session leaves with
\* those cells deleted; a code cell without a tags entry that is no
\* directive is compiled once the loop has passed it.
NotNoImport(cell) == ~IsNoImport(cell)
C3_NoImportCellsSkipped ==
  /\ NotebookLoad =>
       \A i \in 1..Len(CodeOf(notebook)) :
         IsNoImport(CodeOf(notebook)[i]) => i \notin CompiledCells \cup ExecutedCells
  /\ FailedAtCell => ~IsNoImport(CodeOf(notebook)[num_cell])
  /\ InCells =>
       Session(SelectSeq(Before(num_cell), NotNoImport), <<>>).ns = module.dict
  /\ Loaded =>
       Session(SelectSeq(CodeOf(notebook), NotNoImport), <<>>).ns = module.dict
  /\ InCells \/ Loaded =>
       \A i \in 1..Len(CodeOf(notebook)) :
         /\ i < num_cell
         /\ "tags" \notin DOMAIN CodeOf(notebook)[i].metadata
         /\ ~IsDirective(CodeOf(notebook)[i])
         => i \in CompiledCells

\* C3 happens: a load succeeded with a noimport cell skipped, a cell without
\* a tags entry compiled, and the skipped cell's name unbound.
C3_Witness ==
  /\ Loaded
  /\ \E i, j \in 1..Len(CodeOf(notebook)) :
       /\ CodeOf(notebook)[i] = CellNoImport
       /\ "tags" \notin DOMAIN CodeOf(notebook)[j].metadata
       /\ j \in CompiledCells
  /\ "x" \in DOMAIN module.dict
  /\ "y" \notin DOMAIN module.dict

\* C4 as claimed: after a load failed at a cell, the partially populated
\* module is still in the module registry under the imported name, holding
\* the names the surviving cells before that cell bound.
C4_PartialModuleStaysRegistered ==
  FailedAtCell =>
    /\ module.name \in DOMAIN sys_modules
    /\ LET before == Session(Before(num_cell), <<>>).ns IN
       \A n \in DOMAIN before :
         /\ n \in DOMAIN sys_modules[module.name].dict
         /\ sys_modules[module.name].dict[n] = before[n]

\* C4, amended: when cell k raises in compilation or execution the import
\* ends with that exception, the module object handed to exec_module holds
\* the names the surviving cells before k bound, and that object is in the
\* module registry only while exec_module runs: once the failure has
\* propagated the registry has no entry for the imported name.
C4_PartialModuleUnregistered ==
  /\ FailedAtCell =>
       /\ outcome = (IF SyntaxOk(CodeOf(notebook)[num_cell].source)
                     THEN "NameError" ELSE "SyntaxError")
       /\ LET before == Session(Before(num_cell), <<>>).ns IN
          \A n \in DOMAIN before :
            n \in DOMAIN module.dict /\ module.dict[n] = before[n]
       /\ module.name \notin DOMAIN sys_modules
  /\ InCells =>
       /\ module.name \in DOMAIN sys_modules
       /\ sys_modules[module.name] = module

\* C4 happens: the third code cell raised after the first two bound x and z.
C4_Witness ==
  /\ FailedAtCell
  /\ num_cell = 3
  /\ {"x", "z"} \subseteq DOMAIN module.dict
  /\ module.name \notin DOMAIN sys_modules

\* C5: for a name whose <name>.ipynb fails the read-access check (absent or
\* unreadable) the notebook finder returns no specification and nothing
\* raises from it: the search goes on past it, and a name no other finder
\* resolves ends in ModuleNotFoundError with every finder asked; a
\* specification of the notebook finder exists only for a path that passes
\* the check.
C5_NoMatchWhenUnreadable ==
  /\ spec.loader.kind = "notebook" => Access(notebook_for_module(spec.name))
  /\ (name_full # "" /\ ~Access(notebook_for_module(name_full))) =>
       /\ spec.loader.kind # "notebook"
       /\ ~NotebookLoad
       /\ outcome \in {"importing", "loaded", "cached", "ModuleNotFoundError"}
       /\ (pc = "idle" /\ name_full \notin OrdinaryModules /\ outcome # "cached") =>
            /\ outcome = "ModuleNotFoundError"
            /\ finder_ix = Len(meta_path) + 1

\* C5 happens: importing util with util.ipynb unreadable went past the
\* notebook finder and ended in ModuleNotFoundError.
C5_Witness ==
  /\ pc = "idle"
  /\ outcome = "ModuleNotFoundError"
  /\ name_full = "util"
  /\ FileAt(notebook_for_module("util")).kind = "unreadable"
  /\ finder_ix > Len(meta_path)
  /\ NotebookImporters(meta_path) # {}

\* C6: in every process every ordinary finder precedes every notebook
\* finder in the chain, so a name an ordinary finder resolves gets that
\* finder's specification and module, never the notebook of the same name.
C6_OrdinaryResolversFirst ==
  /\ \A p \in Procs : \A i, j \in 1..Len(chain[p]) :
       (chain[p][i].kind = "ordinary" /\ chain[p][j].kind = "notebook") => i < j
  /\ spec.name \in OrdinaryModules => spec.loader.kind = "ordinary"
  /\ \A n \in DOMAIN sys_modules \cap OrdinaryModules :
       /\ sys_modules[n].loader.kind = "ordinary"
       /\ sys_modules[n].dict = <<>>

\* C6 happens: os was loaded by the ordinary finder although a readable
\* os.ipynb exists and a notebook finder is installed.
C6_Witness ==
  /\ "os" \in DOMAIN sys_modules
  /\ sys_modules["os"].loader.kind = "ordinary"
  /\ Access(notebook_for_module("os"))
  /\ NotebookImporters(meta_path) # {}

\* C7: in a process that has imported notebooks_as_modules, whatever the
\* number of init_worker calls made in it, the chain holds exactly one
\* notebook finder (and none before the first import).
C7_ExactlyOneInstance ==
  \A p \in Procs :
    Cardinality(NotebookImporters(chain[p])) = (IF imported[p] THEN 1 ELSE 0)

\* C7 happens: init_worker was called twice in the main process.
C7_Witness ==
  /\ init_calls[Main] >= 2
  /\ imported[Main]
  /\ Cardinality(NotebookImporters(chain[Main])) = 1

\* C8: with two notebook finders in the chain, a load of a notebook is
\* resolved by the first of them alone (the search stops there, the second
\* is not asked), the document is opened once, and each surviving cell is
\* compiled and executed exactly once, leaving the session's namespace.
FirstNotebookImporter == CHOOSE i \in NotebookImporters(meta_path) :
                           \A j \in NotebookImporters(meta_path) : i <= j
C8_TwoInstancesLoadOnce ==
  (Cardinality(NotebookImporters(meta_path)) = 2 /\ NotebookLoad /\ pc # "find") =>
    /\ spec.loader = meta_path[FirstNotebookImporter]
    /\ finder_ix = FirstNotebookImporter
    /\ opens <= 1
    /\ Len(executed) = Cardinality(ExecutedCells)
    /\ Len(compiled) = Cardinality(CompiledCells)
    /\ Loaded =>
         /\ opens = 1
         /\ ExecutedCells = SurvivingBelow(Len(CodeOf(notebook)) + 1)
         /\ CompiledCells = ExecutedCells
         /\ sys_modules[module.name].dict = Session(CodeOf(notebook), <<>>).ns

\* C8 happens: a notebook with two surviving cells loaded with two
\* instances installed.
C8_Witness ==
  /\ Cardinality(NotebookImporters(meta_path)) = 2
  /\ Loaded
  /\ Len(executed) >= 2

\* C9: a worker the client has sent a task to has a notebook finder in its
\* chain, and when setup_dask_cluster returns every worker it started has.
C9_InstalledBeforeDispatch ==
  /\ \A w \in WorkerIds :
       dispatched[w] > 0 => (w \in workers /\ NotebookImporters(chain[w]) # {})
  /\ setup_pc = "returned" =>
       \A w \in workers : NotebookImporters(chain[w]) # {}

\* C9 happens: a task went to the second of at least two workers.
C9_Witness ==
  /\ Cardinality(workers) >= 2
  /\ dispatched[2] > 0

\* C10: a readable document without code cells (or without cells) loads
\* without error; nothing is compiled or executed and the namespace stays
\* empty.
C10_NoCodeCellsLoadsEmpty ==
  (/\ NotebookLoad
   /\ FileAt(notebook_for_module(module.name)).kind = "notebook"
   /\ CodeOf(FileAt(notebook_for_module(module.name)).cells) = <<>>) =>
    /\ outcome \in {"importing", "loaded", "cached"}
    /\ compiled = <<>>
    /\ executed = <<>>
    /\ module.dict = <<>>
    /\ pc = "idle" => (module.name \in DOMAIN sys_modules
                       /\ sys_modules[module.name].dict = <<>>)

\* C10 happens: a document of two non-code cells has loaded.
C10_Witness ==
  /\ Loaded
  /\ outcome = "loaded"
  /\ Len(notebook) = 2
  /\ CodeOf(notebook) = <<>>
  /\ sys_modules[module.name].dict = <<>>

\* The exception cell n of the document raises when it is run.
ErrorOf(n) ==
  IF SyntaxOk(CodeOf(notebook)[n].source) THEN "NameError" ELSE "SyntaxError"

\* C11: a load moves only from the search (unresolved) to a specification
\* (resolved), to the loop over the cells, one position at a time, and from
\* there to loaded or to failed; a cell that raises ends the load in that
\* very step with the cell's own exception as the import's outcome, the
\* position staying at that cell; no earlier cell raised, no cell after it
\* is compiled or executed, and no cell is compiled or executed twice.
C11_Step ==
  /\ pc = "idle" => pc' \in {"idle", "find"}
  /\ pc = "find" =>
       \/ pc' = "find" /\ spec' = NoSpec
       \/ pc' = "create" /\ spec' # NoSpec
       \/ pc' = "idle" /\ outcome' = "ModuleNotFoundError"
  /\ pc = "create" => pc' = "exec" /\ spec' = spec
  /\ pc = "exec" =>
       \/ pc' = "read"
       \/ pc' = "idle" /\ outcome' \in {"loaded", "OSError"}
  /\ pc = "read" =>
       \/ pc' = "cells" /\ num_cell' = 1
       \/ pc' = "idle" /\ outcome' = "NotJSONError"
  /\ pc = "cells" =>
       \/ /\ pc' = "cells"
          /\ num_cell' = num_cell + 1
          /\ outcome' = outcome
       \/ /\ pc' = "idle"
          /\ outcome' = "loaded"
          /\ num_cell = Len(CodeOf(notebook)) + 1
          /\ UNCHANGED <<num_cell, compiled, executed, module>>
       \/ /\ pc' = "idle"
          /\ num_cell' = num_cell
          /\ num_cell <= Len(CodeOf(notebook))
          /\ ~Excluded(CodeOf(notebook)[num_cell])
          /\ outcome' = ErrorOf(num_cell)
C11_Failed ==
  FailedAtCell =>
    /\ Session(Before(num_cell), <<>>).ok
    /\ outcome = ErrorOf(num_cell)
    /\ \A i \in CompiledCells \cup ExecutedCells : i <= num_cell
    /\ compiled[Len(compiled)].num_cell = num_cell
    /\ Len(compiled) = Cardinality(CompiledCells)
    /\ Len(executed) = Cardinality(ExecutedCells)
C11_LoadStateMachine == [][C11_Step]_vars /\ []C11_Failed

\* C11 happens: a load failed at its second code cell, which had been
\* compiled, with surviving code cells after it left alone.
C11_Witness ==
  /\ FailedAtCell
  /\ num_cell = 2
  /\ 1 \in ExecutedCells
  /\ \E i \in 3..Len(CodeOf(notebook)) : ~Excluded(CodeOf(notebook)[i])

\* The position among all code cells of the j-th surviving code cell.
NthSurviving(j) ==
  CHOOSE i \in 1..Len(CodeOf(notebook)) :
    /\ ~Excluded(CodeOf(notebook)[i])
    /\ Cardinality(SurvivingBelow(i)) = j - 1

\* C12: without a session, the j-th cell compiled is compiled under
\* "<name>.ipynb Cell N" with N the 1-based position of the j-th surviving
\* cell among all code cells of the document: non-code cells take no
\* position, directive and noimport cells take one. N is a function of the
\* document's content alone, so every load of the same content gives the
\* same N.
C12_LabelCountsAllCodeCells ==
  (~ipython /\ NotebookLoad) =>
    \A j \in 1..Len(compiled) :
      /\ compiled[j].name.file = <<module.name, ".ipynb">>
      /\ compiled[j].name.cell = NthSurviving(j)
      /\ ~Excluded(CodeOf(notebook)[compiled[j].name.cell])

\* C12 happens: a cell was compiled as Cell 2 although it is the first
\* surviving cell and the third cell of the document.
C12_Witness ==
  /\ ~ipython
  /\ Loaded
  /\ Len(notebook) = 3
  /\ ~IsCode(notebook[1])
  /\ IsCode(notebook[2]) /\ Excluded(notebook[2])
  /\ compiled # <<>>
  /\ compiled[1].name.cell = 2

\* The source text of the cell the j-th compile call compiled.
SourceCompiled(j) == CodeOf(notebook)[NthSurviving(j)].source

\* C14: without a session nothing is registered, every surviving cell is
\* compiled under "<name>.ipynb Cell N", and a load fails only where one
\* continuous session over the document fails; with a session the source of
\* every cell handed to compile is in the session's cache and the cell is
\* compiled under the label the session gave that source.
C14_SessionOptional ==
  NotebookLoad =>
    /\ ~ipython =>
         /\ ipython_cache = {}
         /\ \A j \in 1..Len(compiled) :
              compiled[j].name =
                [file |-> <<module.name, ".ipynb">>, cell |-> NthSurviving(j),
                 text |-> <<>>]
         /\ (pc = "idle" /\ outcome \in CellErrors) => ~Session(CodeOf(notebook), <<>>).ok
         /\ (pc = "idle" /\ file_notebook = "closed"
             /\ outcome \notin {"loaded", "cached", "NotJSONError"}) => outcome \in CellErrors
    /\ ipython =>
         \A j \in 1..Len(compiled) :
           /\ SourceCompiled(j) \in ipython_cache
           /\ compiled[j].name =
                [file |-> <<"<ipython-input>", "">>, cell |-> 0,
                 text |-> SourceCompiled(j)]

\* C14 happens without a session: two cells compiled under document labels.
C14_Witness ==
  /\ ~ipython
  /\ Loaded
  /\ Len(compiled) >= 2
  /\ ipython_cache = {}

\* C14 happens with a session: two sources registered and compiled under
\* the session's labels.
C14_WitnessSession ==
  /\ ipython
  /\ Loaded
  /\ Len(compiled) >= 2
  /\ Cardinality(ipython_cache) >= 2

\* C13: each exec_module opens the document once, reads what the file holds
\* at that moment (nothing kept from an earlier load) and holds the handle
\* only between the open and the end of the read: while the cells run, and
\* once the load has ended in success, in a parse failure or in a cell's
\* failure, the handle is closed; after a failed open there is no handle.
C13_Handle ==
  /\ opens <= 1
  /\ file_notebook = "open" <=> pc = "read"
  /\ pc = "read" => opens = 1
  /\ pc = "cells" => (file_notebook = "closed" /\ opens = 1)
  /\ (pc = "idle" /\ outcome \in {"loaded"} \cup CellErrors /\ NotebookLoad) =>
       (file_notebook = "closed" /\ opens = 1)
  /\ (pc = "idle" /\ outcome = "NotJSONError") => (file_notebook = "closed" /\ opens = 1)
  /\ (pc = "idle" /\ outcome = "OSError") => (file_notebook = "none" /\ opens = 1)
C13_Read ==
  /\ (pc = "exec" /\ pc' # "exec" /\ NotebookLoad) => opens' = opens + 1
  /\ pc' = pc => opens' = opens
  /\ (pc = "read" /\ pc' = "cells") =>
       notebook' = fs[cwd][<<module.name, ".ipynb">>].cells
  /\ pc = "cells" => UNCHANGED <<opens, notebook, file_notebook>>
C13_WitnessParseFailure ==
  pc = "idle" /\ outcome = "NotJSONError" /\ file_notebook = "closed"

\* C15 as claimed: the file exec_module opens is the one find_spec checked
\* and recorded as the specification's origin.
C15_OpensResolvedOrigin ==
  (NotebookLoad /\ opens > 0) => opened = module.origin

\* C16: whether a load succeeds, which exception ends it, and the namespace
\* it leaves are a function of the ordered sequence of surviving code cells
\* alone: they are what running that sequence gives, so two documents with
\* the same surviving cells (differing in non-code cells, in directive or
\* noimport cells or their content) load alike.
IsSurvivor(cell) == IsCode(cell) /\ ~Excluded(cell)
RECURSIVE RunSurvivors(_, _)
RunSurvivors(cells, ns) ==
  IF cells = <<>> THEN [outcome |-> "loaded", ns |-> ns]
  ELSE IF ~SyntaxOk(Head(cells).source) THEN [outcome |-> "SyntaxError", ns |-> ns]
  ELSE LET ran == Exec(StatementsOf(Head(cells).source), ns) IN
       IF ran.ok THEN RunSurvivors(Tail(cells), ran.ns)
       ELSE [outcome |-> "NameError", ns |-> ran.ns]
C16_SurvivorsDecide ==
  (pc = "idle" /\ NotebookLoad /\ outcome \in {"loaded"} \cup CellErrors) =>
    [outcome |-> outcome, ns |-> module.dict] =
      RunSurvivors(SelectSeq(notebook, IsSurvivor), <<>>)

\* C16 happens: a document whose only surviving cell is x = 1, among a
\* non-code cell, a directive cell and a noimport cell, loaded with x = 1.
C16_Witness ==
  /\ Loaded
  /\ SelectSeq(notebook, IsSurvivor) = <<CellX>>
  /\ \E i, j, k \in 1..Len(notebook) :
       /\ ~IsCode(notebook[i])
       /\ IsDirective(notebook[j])
       /\ IsNoImport(notebook[k])
  /\ module.dict = [n \in {"x"} |-> 1]

\* C17: while the finders are asked, and when the module is created, the
\* chain, the files and the working directory, the open count and handle,
\* the cells read and the compile, exec and session logs stay as they
\* were; a find_spec step leaves the registry and the module untouched; the
\* module created is the empty default one, and the registry changes only
\* by the runtime entering that module under the name.
C17_Step ==
  /\ pc \in {"find", "create"} =>
       UNCHANGED <<chain, imported, fs, cwd, opens, opened, file_notebook, notebook,
                   compiled, executed, ipython_cache>>
  /\ pc = "find" => UNCHANGED <<sys_modules, module>>
  /\ pc = "create" =>
       /\ module'.dict = <<>>
       /\ module'.name = spec.name
       /\ DOMAIN sys_modules' = DOMAIN sys_modules \cup {spec.name}
       /\ sys_modules'[spec.name] = module'
       /\ \A n \in DOMAIN sys_modules : sys_modules'[n] = sys_modules[n]
C17_ResolveChangesNothing == [][C17_Step]_vars

\* C17 happens: a notebook finder returned a specification and the module
\* was created, empty, with another module already registered.
C17_Witness ==
  /\ pc = "exec"
  /\ NotebookLoad
  /\ module.dict = <<>>
  /\ "os" \in DOMAIN sys_modules
  /\ opens = 0
  /\ compiled = <<>>

====
